---- MODULE Spec2Model ----
(***************************************************************************)
(* The upload-processing endpoint POST /api/process of the four variants   *)
(* of the text-extraction service:                                         *)
(*   "llama"  src/backend/server.js   hosted parser + polling + completion *)
(*   "ocr"    src/unnamed/part_000    local PDF text / rasterize fallback  *)
(*   "image"  src/unnamed/part_001    image only, fixed prompt             *)
(*   "pdf"    src/unnamed/part_002    PDF only, default test PDF fallback  *)
(* One deployment runs one variant.  The server takes one request through  *)
(* multer, the route handler, the error handler and the cleanup, then the  *)
(* next one; the uploads directory persists between requests.              *)
(* The outside world (multipart body, file system faults, the parsing      *)
(* service, the completion API) is chosen nondeterministically at the step *)
(* that consumes it.                                                        *)
(***************************************************************************)
EXTENDS Integers, Sequences, FiniteSets, TLC

\* ---------------------------------------------------------------- bounds
\* Date.now() takes the values 0..MaxTime.
MaxTime == 1
\* Requests in flight at once in the specification of concurrent uploads.
MaxReq == 2

\* ------------------------------------------------------ program constants
maxAttempts == 60
maxContentLength == 10000
MB == 1024 * 1024

Variants == {"llama", "ocr", "image", "pdf"}

\* ------------------------------------------------------------ input sets
Undefined == "undefined"

\* MIME types as type/subtype.
Mime(t, s) == [type |-> t, sub |-> s]
Mimes == {Mime("image", "png"), Mime("application", "pdf"),
          Mime("application", "zip"), Mime("text", "plain")}

\* Upload sizes in bytes, on both sides of each variant's cap.
Sizes == {5 * MB, 5 * MB + 1, 10 * MB, 10 * MB + 1, 25 * MB, 25 * MB + 1}

\* Original file names, as sequences of characters.
OrigNames == {<<"a">>, <<"/">>, <<"_">>}

\* The prompt field of the multipart body.
NoPrompt == [present |-> FALSE, text |-> <<>>]
Prompt(t) == [present |-> TRUE, text |-> t]
Prompts == {NoPrompt, Prompt(<<>>), Prompt(<<" ">>), Prompt(<<" ", "p">>)}

\* HTTP statuses an upstream service answers with.
Statuses == {200, 400, 404, 500}
\* Bodies of upstream error answers.
Bodies == {"b1", "b2"}
\* Lengths of the markdown text the parsing service returns.
MarkdownLens == {0, 1, maxContentLength, maxContentLength + 1}
\* choices[0].message.content and choices[0].text of a completion.
Contents == {Undefined, "", "answer"}
Texts == {Undefined, "", "legacy"}

\* ---------------------------------------------------------------- values
Null == [null |-> TRUE]
NoFile == [nofile |-> TRUE]
NoResp == [status |-> 0, body |-> [none |-> TRUE]]
NoAns == [kind |-> "none"]
NoErr == [none |-> TRUE]

StatusText(s) ==
  CASE s = 200 -> "200" [] s = 400 -> "400" [] s = 404 -> "404" [] s = 500 -> "500"

\* An Error object: message is a sequence of string pieces; multer marks a
\* multer.MulterError; path is the path property of a file system error.
Err(m) == [message |-> m, multer |-> FALSE, path |-> Null]
MulterErr(m) == [message |-> m, multer |-> TRUE, path |-> Null]
FsErr(p) == [message |-> <<"ENOENT: no such file or directory">>, multer |-> FALSE, path |-> p]

\* ------------------------------------------------------------ file names
SafeChars == {"a", "Z", "0", ".", "-"}

\* file.originalname.replace(/[^a-zA-Z0-9.-]/g, "_")
Sanitize(name) ==
  [i \in 1..Len(name) |-> IF name[i] \in SafeChars THEN name[i] ELSE "_"]

\* `${Date.now()}-${safe}` in uploadsDir
UploadPath(t, name) == [dir |-> "uploads", ts |-> t, name |-> Sanitize(name)]

\* `${tempImagePath}-1.png` with tempImagePath = tempDir/temp-${Date.now()}
TempImagePath(t) == [dir |-> "tmp", ts |-> t, name |-> <<"temp">>]

\* node_modules/pdf-parse/test/data/05-versions-space.pdf
DefaultPdf == [dir |-> "node_modules", ts |-> 0, name |-> <<"05-versions-space.pdf">>]

\* -------------------------------------------------------- upload (multer)
IsImage(m) == m.type = "image"
IsPdf(m) == m = Mime("application", "pdf")

\* fileFilter of each variant
FileFilter(v, m) ==
  CASE v = "llama" -> IsImage(m) \/ IsPdf(m)
    [] v = "ocr"   -> IsImage(m) \/ IsPdf(m)
    [] v = "image" -> IsImage(m)
    [] v = "pdf"   -> IsPdf(m)

FileFilterMessage(v) ==
  CASE v = "llama" -> <<"Only image and PDF files are allowed.">>
    [] v = "ocr"   -> <<"Only image and PDF files are allowed.">>
    [] v = "image" -> <<"Only image files are allowed.">>
    [] v = "pdf"   -> <<"Only PDF files are allowed!">>

\* limits.fileSize of each variant
FileSizeLimit(v) ==
  CASE v = "llama" -> 25 * MB
    [] v = "ocr"   -> 10 * MB
    [] v = "image" -> 5 * MB
    [] v = "pdf"   -> 5 * MB

\* --------------------------------------------------------------- strings
IsSpace(c) == c = " "

RECURSIVE TrimStart(_)
TrimStart(s) ==
  IF s # <<>> /\ IsSpace(Head(s)) THEN TrimStart(Tail(s)) ELSE s

RECURSIVE TrimEnd(_)
TrimEnd(s) ==
  IF s # <<>> /\ IsSpace(s[Len(s)]) THEN TrimEnd(SubSeq(s, 1, Len(s) - 1)) ELSE s

\* String.prototype.trim
Trim(s) == TrimEnd(TrimStart(s))

PromptTruthy_DefinedOnly(p) == p.present

\* JavaScript truthiness of a prompt value (undefined and "" are falsy)
PromptTruthy(p) == p.present /\ p.text # <<>>

\* req.body?.prompt?.toString?.().trim()            (server.js)
PromptLlama(p) == IF p.present THEN Prompt(Trim(p.text)) ELSE NoPrompt

\* req.body.prompt                                   (part_000)
PromptOcr(p) == p

Truthy_DefinedOnly(s) == s # Undefined

\* JavaScript truthiness of a string-or-undefined value
Truthy(s) == s # Undefined /\ s # ""


\* ----------------------------------------------------------------- state
VARIABLES
  variant,        \* which of the four servers is deployed
  keys,           \* API keys present in process.env
  nodeEnv,        \* process.env.NODE_ENV
  now,            \* Date.now()
  disk,           \* paths of the files that exist
  pc,             \* position of the request in flight
  upload,         \* what multer did with the file field
  file,           \* req.file
  prompt,         \* req.body.prompt
  filePath,       \* the handler's filePath
  tempImagePath,  \* the handler's tempImagePath (part_000)
  outputText,     \* the handler's outputText
  err,            \* the error thrown or passed to next()
  resp,           \* the response sent
  attempts,       \* pollForResult's attempts
  polls,          \* status requests issued by the current pollForResult call
  notYet,         \* 'Job not completed yet' answers received by that call
  ans,            \* the last answer of the parsing service to a status request
  pollOut,        \* how pollForResult ended
  completion,     \* the completion API's answer
  sent,           \* length of the document content put in the completion request
  parseUploads,   \* upload requests sent to the parsing service
  groqCalls,      \* requests sent to the completion API
  unlinks,        \* unlink attempts on the upload file
  tmpUnlinks,     \* unlink attempts on the rasterized image
  faulted,        \* an unlink of the upload file failed although the file existed
  messages,       \* the document content built for the completion request
  rpc,            \* concurrent uploads: position of each request
  rpath,          \* concurrent uploads: req.file.path of each request
  rimg,           \* concurrent uploads: the rasterized image of each request
  files,          \* concurrent uploads: the files that exist, <<path, writer>>
  lost            \* concurrent uploads: a read did not get the request's own file

cfgVars == <<variant, keys, nodeEnv>>
inVars == <<upload, file, prompt>>
locVars == <<filePath, tempImagePath, outputText>>
pollVars == <<attempts, polls, notYet, ans, pollOut>>
upVars == <<completion, sent, parseUploads, groqCalls>>
fsVars == <<disk, unlinks, tmpUnlinks, faulted>>
concVars == <<rpc, rpath, rimg, files, lost>>
vars == <<cfgVars, now, pc, inVars, locVars, err, resp, pollVars, upVars, fsVars, concVars,
         messages>>

Reqs == 1..MaxReq

NoPollOut == [threw |-> FALSE, value |-> 0, error |-> NoErr]
NoCompletion == [status |-> 0, json |-> FALSE, content |-> Undefined, text |-> Undefined, body |-> ""]

AllKeys == {"LLAMA_CLOUD_API_KEY", "GROQ_API_KEY"}

\* The state after the server has started: nothing in flight, the uploads
\* directory empty.  Only server.js checks the API keys, only part_002 reads
\* NODE_ENV and the pdf-parse test PDF (installed or not); the settings a
\* variant never reads are fixed.
Init ==
  /\ variant \in Variants
  /\ keys \in IF variant = "llama" THEN SUBSET AllKeys ELSE {AllKeys}
  /\ nodeEnv \in IF variant = "pdf" THEN {"development", "production"} ELSE {"production"}
  /\ now = 0
  /\ disk \in IF variant = "pdf" THEN {{}, {DefaultPdf}} ELSE {{}}
  /\ pc = "idle"
  /\ upload = "none"
  /\ file = NoFile
  /\ prompt = NoPrompt
  /\ filePath = Null
  /\ tempImagePath = Null
  /\ outputText = Undefined
  /\ err = NoErr
  /\ resp = NoResp
  /\ attempts = 0
  /\ polls = 0
  /\ notYet = 0
  /\ ans = NoAns
  /\ pollOut = NoPollOut
  /\ completion = NoCompletion
  /\ sent = 0
  /\ parseUploads = 0
  /\ groqCalls = 0
  /\ unlinks = 0
  /\ tmpUnlinks = 0
  /\ faulted = FALSE
  /\ messages = "none"
  /\ rpc = [r \in Reqs |-> "idle"]
  /\ rpath = [r \in Reqs |-> Null]
  /\ rimg = [r \in Reqs |-> Null]
  /\ files = {}
  /\ lost = [r \in Reqs |-> FALSE]

\* ------------------------------------------------------------ responses
Response(st, b) == [status |-> st, body |-> b]

\* res.json({ success: true, output: outputText })
Success(out) == Response(200, [success |-> TRUE, output |-> out])

\* errorHandler of server.js, part_000 and part_001
ErrorHandlerPlain(prefix, e) ==
  IF e.multer
    THEN Response(400, [error |-> prefix \o e.message])
    ELSE Response(500, [error |-> IF e.message # <<>> THEN e.message
                                   ELSE <<"Internal Server Error">>])

\* errorHandler of part_002
ErrorHandlerPdf(e, env) ==
  LET m == IF env = "development" THEN e.message ELSE <<"Internal server error">>
  IN  IF e.path = Null
        THEN Response(500, [error |-> <<"Something went wrong!">>, message |-> m])
        ELSE Response(500, [error |-> <<"Something went wrong!">>, message |-> m,
                            path |-> e.path])

\* app.use(errorHandler) of each variant
ErrorHandler(v, e, env) ==
  CASE v = "llama" -> ErrorHandlerPlain(<<>>, e)
    [] v = "ocr"   -> ErrorHandlerPlain(<<"File upload error: ">>, e)
    [] v = "image" -> ErrorHandlerPlain(<<"File upload error: ">>, e)
    [] v = "pdf"   -> ErrorHandlerPdf(e, env)

\* the catch block of server.js
CatchLlama(e) == Response(500, [success |-> FALSE, error |-> e.message])

\* -------------------------------------------------------- file system
\* fs.unlink(p): removes p; fails when p is absent or on an I/O fault.
UnlinkOk(d, p, fault) == p \in d /\ ~fault
Unlink(d, p, fault) == IF UnlinkOk(d, p, fault) THEN d \ {p} ELSE d

\* fs.readFile(p) succeeds
ReadOk(d, p, fault) == p \in d /\ ~fault

\* response.ok
IsOk(s) == s >= 200 /\ s <= 299

Throw(e) == pc' = "catch" /\ err' = e

\* ------------------------------------------------- request and multer
\* A multipart request reaches POST /api/process.
Arrive ==
  /\ pc = "idle"
  /\ pc' = "multer"
  /\ UNCHANGED <<cfgVars, concVars, messages, now, inVars, locVars, err, resp, pollVars, upVars, fsVars>>

\* upload.single("file"): no file field, a file the fileFilter rejects, a
\* file over limits.fileSize (multer removes what it wrote), or a file
\* stored under storage.filename.
Multer ==
  /\ pc = "multer"
  /\ \E t \in now..MaxTime, p \in Prompts :
       /\ now' = t
       /\ \/ /\ upload' = "nofile"
             /\ file' = NoFile
             /\ prompt' = p
             /\ pc' = "handler"
             /\ UNCHANGED <<err, disk>>
          \/ \E m \in Mimes, n \in OrigNames, sz \in Sizes :
               IF ~FileFilter(variant, m)
                 THEN /\ upload' = "filtered"
                      /\ file' = NoFile
                      /\ prompt' = NoPrompt
                      /\ err' = Err(FileFilterMessage(variant))
                      /\ pc' = "errorHandler"
                      /\ UNCHANGED disk
                 ELSE IF sz > FileSizeLimit(variant)
                   THEN /\ upload' = "toolarge"
                        /\ file' = NoFile
                        /\ prompt' = NoPrompt
                        /\ err' = MulterErr(<<"File too large">>)
                        /\ pc' = "errorHandler"
                        /\ disk' = disk \ {UploadPath(t, n)}
                   ELSE /\ upload' = "accepted"
                        /\ file' = [path |-> UploadPath(t, n), mimetype |-> m]
                        /\ prompt' = p
                        /\ pc' = "handler"
                        /\ disk' = disk \cup {UploadPath(t, n)}
                        /\ UNCHANGED err
  /\ UNCHANGED <<cfgVars, concVars, messages, locVars, resp, pollVars, upVars, unlinks, tmpUnlinks, faulted>>

\* multer passed an error to next(): the route handler is skipped and the
\* error handler answers.
UploadError ==
  /\ pc = "errorHandler"
  /\ resp' = ErrorHandler(variant, err, nodeEnv)
  /\ pc' = "done"
  /\ UNCHANGED <<cfgVars, concVars, messages, now, inVars, locVars, err, pollVars, upVars, fsVars>>

\* ------------------------------------------- server.js: hosted parser
\* The answers of the parsing service to a status request (status 0: the
\* request itself failed).
NotCompleted == "Job not completed yet"
PollAnswers ==
       {[status |-> 200, markdown |-> n, body |-> ""] : n \in MarkdownLens}
  \cup {[status |-> 400, markdown |-> 0, body |-> d] : d \in {NotCompleted} \cup Bodies}
  \cup {[status |-> s, markdown |-> 0, body |-> b] : s \in {404, 500}, b \in Bodies}
  \cup {[status |-> 0, markdown |-> 0, body |-> ""]}

\* The answers of an upstream service to a POST.
PostAnswers ==
       {[status |-> s, body |-> b] : s \in Statuses \ {200}, b \in Bodies}
  \cup {[status |-> 200, body |-> "job"], [status |-> 0, body |-> ""]}

\* The answers of the completion API.
Completions ==
       {[status |-> 200, json |-> TRUE, content |-> c, text |-> t, body |-> ""] :
          c \in Contents, t \in Texts}
  \cup {[status |-> 200, json |-> FALSE, content |-> Undefined, text |-> Undefined,
         body |-> "b1"]}
  \cup {[status |-> s, json |-> TRUE, content |-> Undefined, text |-> Undefined,
         body |-> b] : s \in Statuses \ {200}, b \in Bodies}
  \cup {[status |-> 0, json |-> FALSE, content |-> Undefined, text |-> Undefined,
         body |-> ""]}

FetchError == Err(<<"request failed">>)
SyntaxError == Err(<<"Unexpected token in JSON">>)

KeepPolling_OffByOne(a) == a <= maxAttempts

\* while (attempts < maxAttempts)
KeepPolling(a) == a < maxAttempts

JobPending_AnyBadRequest(a) == a.status = 400

\* error.detail === 'Job not completed yet'
JobPending(a) == a.status = 400 /\ a.body = NotCompleted

PollResult_NoMarkdown(a) ==
  IF IsOk(a.status) THEN [threw |-> FALSE, value |-> 0, error |-> NoErr]
  ELSE [threw |-> TRUE, value |-> 0, error |-> Err(<<"Error: ", a.body>>)]

\* what a poll that ends pollForResult returns or throws
PollResult(a) ==
  IF a.status = 0 THEN [threw |-> TRUE, value |-> 0, error |-> FetchError]
  ELSE IF IsOk(a.status) THEN [threw |-> FALSE, value |-> a.markdown, error |-> NoErr]
  ELSE IF a.status = 400
    THEN [threw |-> TRUE, value |-> 0, error |-> Err(<<"Error: ", a.body>>)]
    ELSE [threw |-> TRUE, value |-> 0,
          error |-> Err(<<"Error checking job status (", StatusText(a.status), "): ", a.body>>)]

PollTimeout ==
  [threw |-> TRUE, value |-> 0,
   error |-> Err(<<"Parsing timeout - job took too long to complete">>)]

TruncationSuffix ==
  <<".", ".", ".", " ", "[", "c", "o", "n", "t", "e", "n", "t", " ",
    "t", "r", "u", "n", "c", "a", "t", "e", "d", "]">>

Truncate_OffByOne(n) ==
  IF n >= maxContentLength THEN maxContentLength + Len(TruncationSuffix) ELSE n

\* length of truncatedContent for a parsedContent of length n
Truncate(n) ==
  IF n > maxContentLength THEN maxContentLength + Len(TruncationSuffix) ELSE n

\* content || text || ""
OutputLlama(c) ==
  IF Truthy(c.content) THEN c.content ELSE IF Truthy(c.text) THEN c.text ELSE ""

\* the handler up to the first await: prompt, file, filePath and the checks
L_Start ==
  /\ pc = "handler" /\ variant = "llama"
  /\ filePath' = IF file = NoFile THEN Null ELSE file.path
  /\ IF file = NoFile THEN Throw(Err(<<"No file uploaded.">>))
     ELSE IF ~PromptTruthy(PromptLlama(prompt)) THEN Throw(Err(<<"No prompt provided.">>))
     ELSE IF "LLAMA_CLOUD_API_KEY" \notin keys
       THEN Throw(Err(<<"LLAMA_CLOUD_API_KEY is not set in environment variables">>))
     ELSE IF "GROQ_API_KEY" \notin keys
       THEN Throw(Err(<<"GROQ_API_KEY is not set in environment variables">>))
     ELSE pc' = "l_read" /\ UNCHANGED err
  /\ UNCHANGED <<cfgVars, concVars, messages, now, inVars, tempImagePath, outputText, resp, pollVars, upVars, fsVars>>

\* uploadFileToLlamaParse: fs.readFile(filePath)
L_Read ==
  /\ pc = "l_read"
  /\ \E fault \in BOOLEAN :
       IF ReadOk(disk, filePath, fault)
         THEN pc' = "l_upload" /\ UNCHANGED err
         ELSE Throw(FsErr(filePath))
  /\ UNCHANGED <<cfgVars, concVars, messages, now, inVars, locVars, resp, pollVars, upVars, fsVars>>

\* uploadFileToLlamaParse: POST /parsing/upload, then pollForResult starts
L_Upload ==
  /\ pc = "l_upload"
  /\ parseUploads' = parseUploads + 1
  /\ \E a \in PostAnswers :
       IF a.status = 0 THEN Throw(FetchError) /\ UNCHANGED attempts
       ELSE IF ~IsOk(a.status)
         THEN /\ Throw(Err(<<"Upload failed (", StatusText(a.status), "): ", a.body>>))
              /\ UNCHANGED attempts
         ELSE pc' = "l_poll" /\ attempts' = 0 /\ UNCHANGED err
  /\ UNCHANGED <<cfgVars, concVars, messages, now, inVars, locVars, resp, polls, notYet, ans, pollOut,
                 completion, sent, groqCalls, fsVars>>

\* pollForResult: one turn of the loop, a status request and its answer
L_Poll ==
  /\ pc = "l_poll"
  /\ KeepPolling(attempts)
  /\ polls' = polls + 1
  /\ \E a \in PollAnswers :
       /\ ans' = a
       /\ IF JobPending(a)
            THEN /\ attempts' = attempts + 1
                 /\ notYet' = notYet + 1
                 /\ UNCHANGED <<pc, pollOut>>
            ELSE /\ pollOut' = PollResult(a)
                 /\ pc' = "l_polled"
                 /\ UNCHANGED <<attempts, notYet>>
  /\ UNCHANGED <<cfgVars, concVars, messages, now, inVars, locVars, err, resp, upVars, fsVars>>

\* pollForResult: the loop ends with the attempts used up
L_PollTimeout ==
  /\ pc = "l_poll"
  /\ ~KeepPolling(attempts)
  /\ pollOut' = PollTimeout
  /\ pc' = "l_polled"
  /\ UNCHANGED <<cfgVars, concVars, messages, now, inVars, locVars, err, resp, attempts, polls, notYet, ans,
                 upVars, fsVars>>

\* the handler resumes with parsedContent (or the error), truncates it and
\* builds the messages
L_AfterPoll ==
  /\ pc = "l_polled"
  /\ attempts' = 0 /\ polls' = 0 /\ notYet' = 0 /\ ans' = NoAns /\ pollOut' = NoPollOut
  /\ IF pollOut.threw THEN Throw(pollOut.error) /\ UNCHANGED <<sent, messages>>
     ELSE IF pollOut.value = 0
       THEN Throw(Err(<<"No content returned by LlamaParse.">>)) /\ UNCHANGED <<sent, messages>>
       ELSE /\ pc' = "l_groq"
            /\ sent' = Truncate(pollOut.value)
            /\ messages' = "text"
            /\ UNCHANGED err
  /\ UNCHANGED <<cfgVars, concVars, now, inVars, locVars, resp, completion, parseUploads, groqCalls,
                 fsVars>>

\* the completion call and the extraction of outputText
L_Groq ==
  /\ pc = "l_groq"
  /\ groqCalls' = groqCalls + 1
  /\ \E c \in Completions :
       /\ completion' = c
       /\ IF c.status = 0 THEN Throw(FetchError) /\ UNCHANGED outputText
          ELSE IF ~IsOk(c.status)
            THEN /\ Throw(Err(<<"Groq API error (", StatusText(c.status), "): ", c.body>>))
                 /\ UNCHANGED outputText
          ELSE IF ~c.json THEN Throw(SyntaxError) /\ UNCHANGED outputText
          ELSE IF ~Truthy(OutputLlama(c))
            THEN Throw(Err(<<"No output text received from Groq">>)) /\ UNCHANGED outputText
            ELSE pc' = "l_cleanup" /\ outputText' = OutputLlama(c) /\ UNCHANGED err
  /\ UNCHANGED <<cfgVars, concVars, messages, now, inVars, filePath, tempImagePath, resp, pollVars, sent,
                 parseUploads, fsVars>>

HasPath_Inverted(p) == p = Null

\* if (filePath)
HasPath(p) == p # Null

Swallowed_Rethrown(e, failed) == IF failed THEN Err(<<"unlink failed">>) ELSE e

\* try { await fs.unlink(...) } catch (e) { console.error(...) }: the error
\* in flight after a cleanup whose unlink failed or not
Swallowed(e, failed) == e

\* one fs.unlink of the upload file, its failure swallowed
UnlinkUpload(fault) ==
  /\ disk' = Unlink(disk, filePath, fault)
  /\ unlinks' = unlinks + 1
  /\ faulted' = (faulted \/ (filePath \in disk /\ fault))
  /\ err' = Swallowed(err, ~UnlinkOk(disk, filePath, fault))
  /\ UNCHANGED tmpUnlinks

\* the success path: cleanup, then res.json
L_Cleanup ==
  /\ pc = "l_cleanup"
  /\ IF HasPath(filePath) THEN \E fault \in BOOLEAN : UnlinkUpload(fault)
     ELSE UNCHANGED <<fsVars, err>>
  /\ resp' = Success(outputText)
  /\ pc' = "finally"
  /\ UNCHANGED <<cfgVars, concVars, messages, now, inVars, locVars, pollVars, upVars>>

\* catch (err): the error goes out as JSON
L_Catch ==
  /\ pc = "catch" /\ variant = "llama"
  /\ resp' = CatchLlama(err)
  /\ pc' = "finally"
  /\ UNCHANGED <<cfgVars, concVars, messages, now, inVars, locVars, err, pollVars, upVars, fsVars>>

\* finally: unlink the upload file (server.js, part_001)
Finally ==
  /\ pc = "finally" /\ variant \in {"llama", "image"}
  /\ IF HasPath(filePath) THEN \E fault \in BOOLEAN : UnlinkUpload(fault)
     ELSE UNCHANGED <<fsVars, err>>
  /\ pc' = "done"
  /\ UNCHANGED <<cfgVars, concVars, messages, now, inVars, locVars, resp, pollVars, upVars>>

\* ------------------------------------- part_000 and part_001: local
\* data.text of pdf-parse
ExtractedTexts == {<<>>, <<" ">>, <<"t">>}

\* extractedText && extractedText.trim().length > 0
HasTextLayer(t) == t # <<>> /\ Len(Trim(t)) > 0

\* choices?.[0]?.message?.content
OutputContent(c) == c.content

\* part_000: prompt, file, filePath, the checks and the dispatch on the type
O_Start ==
  /\ pc = "handler" /\ variant = "ocr"
  /\ filePath' = IF file = NoFile THEN Null ELSE file.path
  /\ IF file = NoFile THEN Throw(Err(<<"No file uploaded.">>))
     ELSE IF ~PromptTruthy(PromptOcr(prompt)) THEN Throw(Err(<<"No prompt provided.">>))
     ELSE IF IsPdf(file.mimetype) THEN pc' = "o_pdf" /\ UNCHANGED err
     ELSE IF IsImage(file.mimetype) THEN pc' = "o_img" /\ UNCHANGED err
     ELSE Throw(Err(<<"Unsupported file type.">>))
  /\ UNCHANGED <<cfgVars, concVars, messages, now, inVars, tempImagePath, outputText, resp, pollVars, upVars, fsVars>>

\* part_000: read the PDF and extract its text; without a text layer the
\* name of the rasterized image is chosen
O_Pdf ==
  /\ pc = "o_pdf"
  /\ \E fault \in BOOLEAN, parsed \in BOOLEAN, text \in ExtractedTexts, t \in now..MaxTime :
       IF ~ReadOk(disk, filePath, fault)
         THEN Throw(FsErr(filePath)) /\ UNCHANGED <<now, tempImagePath, messages>>
       ELSE IF ~parsed
         THEN /\ Throw(Err(<<"Invalid PDF structure">>))
              /\ UNCHANGED <<now, tempImagePath, messages>>
       ELSE IF HasTextLayer(text)
         THEN pc' = "groq" /\ messages' = "text" /\ UNCHANGED <<err, now, tempImagePath>>
         ELSE /\ now' = t
              /\ tempImagePath' = TempImagePath(t)
              /\ pc' = "o_poppler"
              /\ UNCHANGED <<err, messages>>
  /\ UNCHANGED <<cfgVars, concVars, inVars, filePath, outputText, resp, pollVars, upVars, fsVars>>

\* part_000: poppler.pdfToPng writes the first page as an image
O_Poppler ==
  /\ pc = "o_poppler"
  /\ \E ok \in BOOLEAN :
       IF ok /\ filePath \in disk
         THEN /\ disk' = disk \cup {tempImagePath}
              /\ pc' = "o_png"
              /\ UNCHANGED err
         ELSE Throw(Err(<<"pdftocairo failed">>)) /\ UNCHANGED disk
  /\ UNCHANGED <<cfgVars, concVars, messages, now, inVars, locVars, resp, pollVars, upVars, unlinks, tmpUnlinks,
                 faulted>>

\* part_000: read the rasterized image and build the messages
O_Png ==
  /\ pc = "o_png"
  /\ \E fault \in BOOLEAN :
       IF ReadOk(disk, tempImagePath, fault)
         THEN pc' = "groq" /\ messages' = "image" /\ UNCHANGED err
         ELSE Throw(FsErr(tempImagePath)) /\ UNCHANGED messages
  /\ UNCHANGED <<cfgVars, concVars, now, inVars, locVars, resp, pollVars, upVars, fsVars>>

\* part_000: read an uploaded image and build the messages
O_Img ==
  /\ pc = "o_img"
  /\ \E fault \in BOOLEAN :
       IF ReadOk(disk, filePath, fault)
         THEN pc' = "groq" /\ messages' = "image" /\ UNCHANGED err
         ELSE Throw(FsErr(filePath)) /\ UNCHANGED messages
  /\ UNCHANGED <<cfgVars, concVars, now, inVars, locVars, resp, pollVars, upVars, fsVars>>

\* part_001: filePath and its check
I_Start ==
  /\ pc = "handler" /\ variant = "image"
  /\ filePath' = IF file = NoFile THEN Null ELSE file.path
  /\ IF file = NoFile THEN Throw(Err(<<"No file uploaded.">>))
     ELSE pc' = "i_read" /\ UNCHANGED err
  /\ UNCHANGED <<cfgVars, concVars, messages, now, inVars, tempImagePath, outputText, resp, pollVars, upVars, fsVars>>

\* part_001: read the image and build the messages
I_Read ==
  /\ pc = "i_read"
  /\ \E fault \in BOOLEAN :
       IF ReadOk(disk, filePath, fault)
         THEN pc' = "groq" /\ messages' = "image" /\ UNCHANGED err
         ELSE Throw(FsErr(filePath)) /\ UNCHANGED messages
  /\ UNCHANGED <<cfgVars, concVars, now, inVars, locVars, resp, pollVars, upVars, fsVars>>

\* part_000, part_001: the completion call, outputText and the success response
Groq ==
  /\ pc = "groq"
  /\ groqCalls' = groqCalls + 1
  /\ \E c \in Completions :
       /\ completion' = c
       /\ IF c.status = 0 THEN Throw(FetchError) /\ UNCHANGED <<outputText, resp>>
          ELSE IF ~IsOk(c.status)
            THEN /\ Throw(Err(<<"Groq API Error: ", StatusText(c.status), " - ", c.body>>))
                 /\ UNCHANGED <<outputText, resp>>
          ELSE IF ~c.json THEN Throw(SyntaxError) /\ UNCHANGED <<outputText, resp>>
          ELSE IF ~Truthy(OutputContent(c))
            THEN /\ Throw(Err(<<"Invalid response or missing content from Groq API.">>))
                 /\ UNCHANGED <<outputText, resp>>
            ELSE /\ outputText' = OutputContent(c)
                 /\ resp' = Success(OutputContent(c))
                 /\ pc' = "finally"
                 /\ UNCHANGED err
  /\ UNCHANGED <<cfgVars, concVars, messages, now, inVars, filePath, tempImagePath, pollVars, sent,
                 parseUploads, fsVars>>

\* part_000, part_001: catch (error) { next(error) }, the error handler answers
Catch ==
  /\ pc = "catch" /\ variant \in {"ocr", "image"}
  /\ resp' = ErrorHandler(variant, err, nodeEnv)
  /\ pc' = "finally"
  /\ UNCHANGED <<cfgVars, concVars, messages, now, inVars, locVars, err, pollVars, upVars, fsVars>>

\* part_000: finally, the upload file
O_Finally ==
  /\ pc = "finally" /\ variant = "ocr"
  /\ IF HasPath(filePath) THEN \E fault \in BOOLEAN : UnlinkUpload(fault)
     ELSE UNCHANGED <<fsVars, err>>
  /\ pc' = IF HasPath(tempImagePath) THEN "o_finally" ELSE "done"
  /\ UNCHANGED <<cfgVars, concVars, messages, now, inVars, locVars, resp, pollVars, upVars>>

\* part_000: finally, the rasterized image
O_FinallyTemp ==
  /\ pc = "o_finally"
  /\ \E fault \in BOOLEAN :
       /\ disk' = Unlink(disk, tempImagePath, fault)
       /\ err' = Swallowed(err, ~UnlinkOk(disk, tempImagePath, fault))
  /\ tmpUnlinks' = tmpUnlinks + 1
  /\ pc' = "done"
  /\ UNCHANGED <<cfgVars, concVars, messages, now, inVars, locVars, resp, pollVars, upVars, unlinks, faulted>>

\* ------------------------------------------------------ part_002: PDF
\* part_002: the file to process (the upload or the default test PDF), the
\* existence check and the prompt
K_Start ==
  /\ pc = "handler" /\ variant = "pdf"
  /\ filePath' = IF file = NoFile THEN DefaultPdf ELSE file.path
  /\ IF filePath' \notin disk
       THEN Throw(Err(<<"File not found: ", "filePath">>))
       ELSE pc' = "k_read" /\ UNCHANGED err
  /\ UNCHANGED <<cfgVars, concVars, messages, now, inVars, tempImagePath, outputText, resp, pollVars, upVars, fsVars>>

\* part_002: read the file and extract its text
K_Read ==
  /\ pc = "k_read"
  /\ \E fault \in BOOLEAN, parsed \in BOOLEAN :
       IF ~ReadOk(disk, filePath, fault) THEN Throw(FsErr(filePath)) /\ UNCHANGED messages
       ELSE IF ~parsed THEN Throw(Err(<<"Invalid PDF structure">>)) /\ UNCHANGED messages
       ELSE pc' = "k_unlink" /\ messages' = "text" /\ UNCHANGED err
  /\ UNCHANGED <<cfgVars, concVars, now, inVars, locVars, resp, pollVars, upVars, fsVars>>

IsUploaded_Never(f) == FALSE

\* if (req.file)
IsUploaded(f) == f # NoFile

\* part_002: delete the uploaded file before the completion call
K_Unlink ==
  /\ pc = "k_unlink"
  /\ IF IsUploaded(file) THEN \E fault \in BOOLEAN : UnlinkUpload(fault)
     ELSE UNCHANGED <<fsVars, err>>
  /\ pc' = "k_groq"
  /\ UNCHANGED <<cfgVars, concVars, messages, now, inVars, locVars, resp, pollVars, upVars>>

\* part_002: the completion call and the response
K_Groq ==
  /\ pc = "k_groq"
  /\ groqCalls' = groqCalls + 1
  /\ \E c \in Completions :
       /\ completion' = c
       /\ IF c.status = 0 THEN Throw(FetchError) /\ UNCHANGED <<outputText, resp>>
          ELSE IF ~IsOk(c.status)
            THEN /\ resp' = Response(c.status, [error |-> <<"API Error">>,
                                                details |-> <<c.body>>])
                 /\ pc' = "done"
                 /\ UNCHANGED <<outputText, err>>
          ELSE IF ~c.json THEN Throw(SyntaxError) /\ UNCHANGED <<outputText, resp>>
          ELSE IF ~Truthy(OutputContent(c))
            THEN /\ Throw(Err(<<"Invalid response from Groq API">>))
                 /\ UNCHANGED <<outputText, resp>>
            ELSE /\ outputText' = OutputContent(c)
                 /\ resp' = Success(OutputContent(c))
                 /\ pc' = "done"
                 /\ UNCHANGED err
  /\ UNCHANGED <<cfgVars, concVars, messages, now, inVars, filePath, tempImagePath, pollVars, sent,
                 parseUploads, fsVars>>

\* part_002: catch (error): delete the upload if it is still there, next(error)
K_Catch ==
  /\ pc = "catch" /\ variant = "pdf"
  /\ IF IsUploaded(file) /\ filePath \in disk
       THEN \E fault \in BOOLEAN : UnlinkUpload(fault)
       ELSE UNCHANGED <<fsVars, err>>
  /\ resp' = ErrorHandler(variant, err, nodeEnv)
  /\ pc' = "done"
  /\ UNCHANGED <<cfgVars, concVars, messages, now, inVars, locVars, pollVars, upVars>>

\* The request is over; its state is dropped, the files stay.
Finish ==
  /\ pc = "done"
  /\ pc' = "idle"
  /\ upload' = "none" /\ file' = NoFile /\ prompt' = NoPrompt
  /\ filePath' = Null /\ tempImagePath' = Null /\ outputText' = Undefined
  /\ err' = NoErr /\ resp' = NoResp
  /\ completion' = NoCompletion /\ sent' = 0 /\ parseUploads' = 0 /\ groqCalls' = 0
  /\ messages' = "none"
  /\ unlinks' = 0 /\ tmpUnlinks' = 0 /\ faulted' = FALSE
  /\ UNCHANGED <<cfgVars, concVars, now, disk, pollVars>>

Next ==
  \/ Arrive \/ Multer \/ UploadError
  \/ L_Start \/ L_Read \/ L_Upload \/ L_Poll \/ L_PollTimeout \/ L_AfterPoll
  \/ L_Groq \/ L_Cleanup \/ L_Catch
  \/ O_Start \/ O_Pdf \/ O_Poppler \/ O_Png \/ O_Img \/ I_Start \/ I_Read
  \/ Groq \/ Catch \/ O_Finally \/ O_FinallyTemp
  \/ K_Start \/ K_Read \/ K_Unlink \/ K_Groq \/ K_Catch
  \/ Finally \/ Finish

Spec == Init /\ [][Next]_vars

TypeOK == pc \in {"idle", "multer", "handler", "errorHandler", "catch", "finally", "done",
                  "l_read", "l_upload", "l_poll", "l_polled", "l_groq", "l_cleanup",
                  "o_pdf", "o_poppler", "o_png", "o_img", "i_read", "groq", "o_finally",
                  "k_read", "k_unlink", "k_groq"}

\* ------------------------------------------------- concurrent uploads
\* The file operations of the handlers for requests that overlap: multer
\* stores the upload under storage.filename, the handler reads it, part_000
\* rasterizes a scanned PDF to `temp-${Date.now()}`-1.png and reads that,
\* and the cleanup unlinks what the request named.  Every await is a point
\* where another request runs.
ConcOnly == <<cfgVars, pc, inVars, locVars, err, resp, pollVars, upVars, fsVars, messages>>

\* writing path p on behalf of request r replaces what was there
WriteFile(fs, p, r) == {f \in fs : f[1] # p} \cup {<<p, r>>}
RemoveFile(fs, p) == {f \in fs : f[1] # p}
\* request r reads path p and gets its own file
ReadsOwn(fs, p, r) == <<p, r>> \in fs
Exists(fs, p) == \E f \in fs : f[1] = p

\* upload.single("file") stores the upload
U_Store(r) ==
  /\ rpc[r] = "idle"
  /\ \E t \in now..MaxTime, n \in OrigNames :
       /\ now' = t
       /\ rpath' = [rpath EXCEPT ![r] = UploadPath(t, n)]
       /\ files' = WriteFile(files, UploadPath(t, n), r)
  /\ rpc' = [rpc EXCEPT ![r] = "stored"]
  /\ UNCHANGED <<ConcOnly, rimg, lost>>

\* fs.readFile(filePath); in part_000 a PDF without a text layer gets the
\* name of its rasterized image
U_Read(r) ==
  /\ rpc[r] = "stored"
  /\ lost' = [lost EXCEPT ![r] = ~ReadsOwn(files, rpath[r], r)]
  /\ \/ /\ rpc' = [rpc EXCEPT ![r] = "cleanup"]
        /\ UNCHANGED <<now, rimg>>
     \/ /\ variant = "ocr"
        /\ Exists(files, rpath[r])
        /\ \E t \in now..MaxTime :
             /\ now' = t
             /\ rimg' = [rimg EXCEPT ![r] = TempImagePath(t)]
        /\ rpc' = [rpc EXCEPT ![r] = "raster"]
  /\ UNCHANGED <<ConcOnly, rpath, files>>

\* poppler.pdfToPng(filePath, tempImagePath, options)
U_Rasterize(r) ==
  /\ rpc[r] = "raster"
  /\ IF Exists(files, rpath[r])
       THEN /\ files' = WriteFile(files, rimg[r], r)
            /\ rpc' = [rpc EXCEPT ![r] = "image"]
            /\ lost' = [lost EXCEPT ![r] = lost[r] \/ ~ReadsOwn(files, rpath[r], r)]
       ELSE /\ rpc' = [rpc EXCEPT ![r] = "cleanup"]
            /\ lost' = [lost EXCEPT ![r] = TRUE]
            /\ UNCHANGED files
  /\ UNCHANGED <<ConcOnly, now, rpath, rimg>>

\* fs.readFile(`${tempImagePath}-1.png`)
U_ReadImage(r) ==
  /\ rpc[r] = "image"
  /\ lost' = [lost EXCEPT ![r] = lost[r] \/ ~ReadsOwn(files, rimg[r], r)]
  /\ rpc' = [rpc EXCEPT ![r] = "cleanup"]
  /\ UNCHANGED <<ConcOnly, now, rpath, rimg, files>>

\* fs.unlink(filePath)
U_Unlink(r) ==
  /\ rpc[r] = "cleanup"
  /\ files' = RemoveFile(files, rpath[r])
  /\ rpc' = [rpc EXCEPT ![r] = IF rimg[r] # Null THEN "cleanupImage" ELSE "done"]
  /\ UNCHANGED <<ConcOnly, now, rpath, rimg, lost>>

\* fs.unlink(`${tempImagePath}-1.png`)
U_UnlinkImage(r) ==
  /\ rpc[r] = "cleanupImage"
  /\ files' = RemoveFile(files, rimg[r])
  /\ rpc' = [rpc EXCEPT ![r] = "done"]
  /\ UNCHANGED <<ConcOnly, now, rpath, rimg, lost>>

\* the request is over
U_Finish(r) ==
  /\ rpc[r] = "done"
  /\ rpc' = [rpc EXCEPT ![r] = "idle"]
  /\ rpath' = [rpath EXCEPT ![r] = Null]
  /\ rimg' = [rimg EXCEPT ![r] = Null]
  /\ lost' = [lost EXCEPT ![r] = FALSE]
  /\ UNCHANGED <<ConcOnly, now, files>>

NextConc ==
  \E r \in Reqs :
    \/ U_Store(r) \/ U_Read(r) \/ U_Rasterize(r) \/ U_ReadImage(r)
    \/ U_Unlink(r) \/ U_UnlinkImage(r) \/ U_Finish(r)

SpecConc == Init /\ [][NextConc]_vars

\* ------------------------------------------------------------ properties
Calls == parseUploads + groqCalls

IsSuccess(r) == "success" \in DOMAIN r.body /\ r.body.success = TRUE
IsFailure(r) == r # NoResp /\ ~IsSuccess(r)

Range(f) == {f[i] : i \in DOMAIN f}

\* C1: a request whose upload multer stored ends, on every exit path, with
\* the upload file absent from disk, provided no unlink of the existing
\* file failed.
C1_UploadAbsentAtExit ==
  (pc = "done" /\ upload = "accepted" /\ ~faulted) => file.path \notin disk

C1_Witness ==
  /\ pc = "done" /\ upload = "accepted" /\ ~faulted
  /\ IsFailure(resp) /\ unlinks > 0 /\ file.path \notin disk

\* C2: when the parsing service answers every poll 'Job not completed yet',
\* pollForResult issues exactly maxAttempts status requests and then throws
\* the timeout error; it never polls more than maxAttempts times.
C2_TimeoutAfterMaxAttempts ==
  /\ polls <= maxAttempts
  /\ (pc = "l_polled" /\ notYet = polls) =>
       (pollOut = PollTimeout /\ polls = maxAttempts)
  /\ (pc = "l_polled" /\ pollOut = PollTimeout) =>
       (notYet = maxAttempts /\ polls = maxAttempts)

C2_Witness ==
  pc = "l_polled" /\ notYet = polls /\ polls = 60 /\ pollOut.threw

\* C3: when the service answers 'Job not completed yet' N < maxAttempts
\* times and then 2xx, pollForResult returns that answer's markdown after
\* exactly N + 1 status requests, without an error.
C3_ReturnsMarkdown ==
  (pc = "l_polled" /\ ans.status >= 200 /\ ans.status <= 299) =>
     /\ ~pollOut.threw
     /\ pollOut.value = ans.markdown
     /\ notYet < maxAttempts
     /\ polls = notYet + 1

C3_Witness ==
  /\ pc = "l_polled" /\ ans.status = 200 /\ notYet = maxAttempts - 1
  /\ pollOut.value = maxContentLength + 1 /\ polls = maxAttempts

C5_UnlinkExactlyOnce ==
  pc = "done" => unlinks = (IF upload = "accepted" THEN 1 ELSE 0)

\* C6 (as claimed): an upload over the size cap or of a MIME type outside
\* the allow-list is answered with HTTP 400 and no upstream call is made.
C6_RejectedUploadIs400 ==
  (pc = "done" /\ upload \in {"filtered", "toolarge"}) =>
     (resp.status = 400 /\ Calls = 0)

\* C7 (as claimed): in the variants that require a prompt, a request with a
\* file and a prompt that is missing or empty after trimming ends as a
\* validation failure and makes no upstream call.
C7_BlankPromptRejected ==
  (variant \in {"llama", "ocr"} /\ upload = "accepted"
     /\ (~prompt.present \/ Trim(prompt.text) = <<>>)) =>
       /\ Calls = 0
       /\ pc = "done" => (IsFailure(resp) /\ resp.body.error = <<"No prompt provided.">>)

\* C7 (amended): a request with a file and a missing or empty prompt - in
\* server.js also a prompt that is empty after trimming - ends as a
\* validation failure and makes no upstream call; part_000 does not trim.
C7_EmptyPromptRejected ==
  (upload = "accepted"
     /\ \/ variant = "llama" /\ (~prompt.present \/ Trim(prompt.text) = <<>>)
        \/ variant = "ocr" /\ (~prompt.present \/ prompt.text = <<>>)) =>
       /\ Calls = 0
       /\ pc = "done" => (IsFailure(resp) /\ resp.body.error = <<"No prompt provided.">>)

C7_Witness ==
  /\ pc = "done" /\ variant = "llama" /\ upload = "accepted"
  /\ prompt = Prompt(<<" ">>) /\ resp.body.error = <<"No prompt provided.">>
  /\ Calls = 0

\* C8 (as claimed): a request without a file field is answered with
\* {success: false, error: "No file uploaded."} and HTTP 400 or 500, and
\* makes no upstream call.
C8_NoFileRejected ==
  (pc = "done" /\ upload = "nofile") =>
     /\ resp.body = [success |-> FALSE, error |-> <<"No file uploaded.">>]
     /\ resp.status \in {400, 500}
     /\ Calls = 0

\* C9 (as claimed): a success response carries a non-empty output, and a 2xx
\* completion whose choices[0].message.content is missing or empty ends as
\* an error response.
C9_EmptyContentIsError ==
  /\ IsSuccess(resp) => resp.body.output \notin {Undefined, ""}
  /\ (pc = "done" /\ completion.status = 200 /\ completion.json
        /\ completion.content \in {Undefined, ""}) => IsFailure(resp)

\* C9 (amended): a success response carries a non-empty output, and a 2xx
\* completion whose content is missing or empty - and, in server.js, whose
\* choices[0].text is missing or empty too - ends as an error response.
C9_NoUsableOutputIsError ==
  /\ IsSuccess(resp) => resp.body.output \notin {Undefined, ""}
  /\ (pc = "done" /\ completion.status = 200 /\ completion.json
        /\ completion.content \in {Undefined, ""}
        /\ (variant = "llama" => completion.text \in {Undefined, ""})) => IsFailure(resp)

C9_Witness ==
  /\ pc = "done" /\ completion.status = 200 /\ completion.json
  /\ completion.content = "" /\ completion.text = Undefined
  /\ IsFailure(resp) /\ resp.status = 500

\* C10 (as claimed): every failure response is JSON with success: false and
\* a message field, with HTTP 400 for validation and upload failures and 500
\* for the others.
C10_ErrorEnvelope ==
  (pc = "done" /\ IsFailure(resp)) =>
     /\ "success" \in DOMAIN resp.body /\ resp.body.success = FALSE
     /\ "error" \in DOMAIN resp.body \/ "message" \in DOMAIN resp.body
     /\ resp.status = (IF \/ upload \in {"filtered", "toolarge"}
                            \/ /\ err # NoErr
                               /\ err.message \in {<<"No file uploaded.">>,
                                                   <<"No prompt provided.">>}
                         THEN 400 ELSE 500)

\* C11: a failing unlink never changes what the caller gets: a step that
\* attempts an unlink leaves the error in flight as it was, and the response
\* and the next step after it are those of the state before the attempt,
\* whatever the attempt's outcome.
C11_CleanupNeverSurfaces ==
  [][(unlinks' > unlinks \/ tmpUnlinks' > tmpUnlinks) =>
       /\ err' = err
       /\ resp' = (IF pc = "l_cleanup"
                     THEN [status |-> 200, body |-> [success |-> TRUE, output |-> outputText]]
                   ELSE IF pc = "catch" THEN ErrorHandler(variant, err, nodeEnv)
                   ELSE resp)
       /\ pc' = (IF pc = "l_cleanup" THEN "finally"
                 ELSE IF pc = "k_unlink" THEN "k_groq"
                 ELSE IF pc = "finally" /\ variant = "ocr" /\ tempImagePath # Null
                   THEN "o_finally"
                 ELSE "done")]_vars

C11_Witness ==
  pc = "done" /\ variant = "llama" /\ unlinks = 2 /\ IsSuccess(resp)

InFlight(r) == rpc[r] \notin {"idle", "done"}

\* C12 (as claimed): no two requests in flight share an upload path or a
\* rasterized-image path, and no request's read misses its own file because
\* another request deleted or overwrote it.
C12_NoSharedTempPath ==
  /\ \A r \in Reqs : \A q \in Reqs \ {r} :
       (InFlight(r) /\ InFlight(q)) =>
          /\ rpath[r] # rpath[q]
          /\ rimg[r] # Null => rimg[r] # rimg[q]
  /\ \A r \in Reqs : ~lost[r]

\* C13 (as claimed): the completion API is called only after extraction or
\* parsing has built the content and before any unlink of the upload or of
\* the rasterized image; the content is built before any completion call
\* and before any unlink.
C13_StepOrder ==
  [][/\ groqCalls' > groqCalls =>
          (messages # "none" /\ unlinks = 0 /\ tmpUnlinks = 0)
     /\ (messages' # messages /\ messages' # "none") =>
          (groqCalls = 0 /\ unlinks = 0 /\ tmpUnlinks = 0)]_vars

\* C13 (amended): as above, except that part_002 has unlinked an uploaded
\* file exactly once when it calls the completion API; the other variants
\* have unlinked nothing by then.
C13_StepOrderByVariant ==
  [][/\ groqCalls' > groqCalls =>
          /\ messages # "none"
          /\ tmpUnlinks = 0
          /\ unlinks = (IF variant = "pdf" /\ file # NoFile THEN 1 ELSE 0)
     /\ (messages' # messages /\ messages' # "none") =>
          (groqCalls = 0 /\ unlinks = 0 /\ tmpUnlinks = 0)]_vars

C13_Witness ==
  /\ pc = "done" /\ variant = "pdf" /\ file # NoFile
  /\ messages = "text" /\ groqCalls = 1 /\ unlinks = 1

\* C14 (as claimed): in server.js the content put in the completion request
\* is never longer than maxContentLength, and parsed content of at most
\* maxContentLength is sent unchanged; the completion call sends that content.
C14_ContentWithinMax ==
  [][/\ (pc = "l_polled" /\ pc' = "l_groq") =>
          /\ sent' <= maxContentLength
          /\ pollOut.value <= maxContentLength => sent' = pollOut.value
     /\ (variant = "llama" /\ groqCalls' > groqCalls) =>
          (sent' = sent /\ sent <= maxContentLength)]_vars

\* C14 (amended): the content put in the completion request is never longer
\* than maxContentLength plus the truncation marker, and parsed content of
\* at most maxContentLength is sent unchanged.
C14_ContentWithinMaxPlusMarker ==
  [][/\ (pc = "l_polled" /\ pc' = "l_groq") =>
          /\ sent' <= maxContentLength + Len(TruncationSuffix)
          /\ pollOut.value <= maxContentLength => sent' = pollOut.value
          /\ pollOut.value > maxContentLength => sent' > maxContentLength
     /\ (variant = "llama" /\ groqCalls' > groqCalls) =>
          (sent' = sent /\ sent <= maxContentLength + Len(TruncationSuffix))]_vars

C14_Witness ==
  /\ pc = "done" /\ variant = "llama" /\ groqCalls = 1
  /\ sent = maxContentLength + Len(TruncationSuffix)
====
